---- MODULE Spec2Model ----
(***************************************************************************)
(* Android boot image header codec (abootimg-oxide): the HeaderV0,         *)
(* HeaderV3 and VendorHeader binary codecs, the Header facade that peeks   *)
(* the version word at 0x28, and the section layout arithmetic.            *)
(*                                                                         *)
(* Bytes are naturals 0..255, a byte source or sink is a sequence of       *)
(* bytes, a u32 is a natural below 2^31 (TLC integers are 32 bit signed,   *)
(* so every word drawn here keeps its top bit clear), and a u64 is the     *)
(* pair <<low word, high word>> of its little-endian halves.               *)
(***************************************************************************)
EXTENDS Integers, Sequences, FiniteSets, TLC

VARIABLES
    src,      \* the byte source handed to a read
    hdr,      \* the in-memory header: built by the caller or returned by a read
    err,      \* the binrw::Error of the last read, NoError when it succeeded
    out,      \* the bytes emitted into the sink by the last write
    back,     \* the result of reading `out` back
    layout,   \* the section positions computed from hdr
    called,   \* the codec the last read dispatched to
    osv,      \* the values of the OS version and patch level codec
    pc        \* which operation ran last

vars == <<src, hdr, err, out, back, layout, called, osv, pc>>

(***************************************************************************)
(* Bounds of the model.                                                    *)
(***************************************************************************)
\* bytes that fill every field the inputs do not set explicitly: 0..MaxFill
MaxFill == 1
\* version words placed at the version slot of a source: 0..MaxVersion
MaxVersion == 5

(***************************************************************************)
(* Little-endian primitives (binrw with #[brw(little)]).                   *)
(***************************************************************************)
Avail(b, pos, n) == pos + n <= Len(b)

Bytes(b, pos, n) == SubSeq(b, pos + 1, pos + n)

U32LE(b, pos) ==
    b[pos + 1] + 256 * b[pos + 2] + 65536 * b[pos + 3] + 16777216 * b[pos + 4]

U64LE(b, pos) == <<U32LE(b, pos), U32LE(b, pos + 4)>>

LE32(v) ==
    <<v % 256, (v \div 256) % 256, (v \div 65536) % 256, (v \div 16777216) % 256>>

LE64(v) == LE32(v[1]) \o LE32(v[2])

Zeroes(n) == [i \in 1..n |-> 0]

MagicAndroid == <<65, 78, 68, 82, 79, 73, 68, 33>>   \* b"ANDROID!"
MagicVendor  == <<86, 78, 68, 82, 66, 79, 79, 84>>   \* b"VNDRBOOT"

(***************************************************************************)
(* Results and errors.                                                     *)
(***************************************************************************)
NoHeader == [tag |-> "none"]
NoError  == [kind |-> "none"]
NoBytes  == <<>>
NoLayout == [kind |-> "none"]

IoError == [kind |-> "Io"]
BadMagic(pos, found) == [kind |-> "BadMagic", pos |-> pos, found |-> found]
AssertFail(pos, message) == [kind |-> "AssertFail", pos |-> pos, message |-> message]
EnumErrors(pos, variant_errors) ==
    [kind |-> "EnumErrors", pos |-> pos, variant_errors |-> variant_errors]

Ok(v)   == [ok |-> TRUE, val |-> v, err |-> NoError]
Fail(e) == [ok |-> FALSE, val |-> NoHeader, err |-> e]

(***************************************************************************)
(* Field layouts: the fields in declared order with their widths. A        *)
(* field's offset is the sum of the widths declared before it.             *)
(***************************************************************************)
RECURSIVE WidthBefore(_, _)
WidthBefore(fields, name) ==
    IF fields = <<>> \/ Head(fields)[1] = name THEN 0
    ELSE Head(fields)[2] + WidthBefore(Tail(fields), name)

HeaderV0Fields ==
    << <<"magic", 8>>,
       <<"kernel_size", 4>>, <<"kernel_addr", 4>>,
       <<"ramdisk_size", 4>>, <<"ramdisk_addr", 4>>,
       <<"second_bootloader_size", 4>>, <<"second_bootloader_addr", 4>>,
       <<"tags_addr", 4>>, <<"page_size", 4>>,
       <<"header_version", 4>>, <<"osversionpatch", 4>>,
       <<"board_name", 16>>, <<"cmdline_part_1", 512>>,
       <<"hash_digest", 32>>, <<"cmdline_part_2", 1024>>,
       <<"versioned", 0>> >>

HeaderV0VersionedFields ==
    << <<"recovery_dtbo_size", 4>>, <<"recovery_dtbo_addr", 8>>,
       <<"header_size", 4>>, <<"dtb_size", 4>>, <<"dtb_addr", 8>> >>

\* Mutant: 12 bytes of padding before header_version instead of 16.
HeaderV3Fields_Pad12 ==
    << <<"magic", 8>>,
       <<"kernel_size", 4>>, <<"ramdisk_size", 4>>, <<"osversionpatch", 4>>,
       <<"header_size", 4>>, <<"pad_before", 12>>, <<"header_version", 4>>,
       <<"cmdline", 1536>>, <<"v4_signature_size", 4>> >>

HeaderV3Fields ==
    << <<"magic", 8>>,
       <<"kernel_size", 4>>, <<"ramdisk_size", 4>>, <<"osversionpatch", 4>>,
       <<"header_size", 4>>, <<"pad_before", 16>>, <<"header_version", 4>>,
       <<"cmdline", 1536>>, <<"v4_signature_size", 4>> >>

VendorHeaderFields ==
    << <<"magic", 8>>,
       <<"header_version", 4>>, <<"page_size", 4>>, <<"kernel_addr", 4>>,
       <<"ramdisk_addr", 4>>, <<"vendor_ramdisk_size", 4>>, <<"cmdline", 2048>>,
       <<"tags_addr", 4>>, <<"board_name", 16>>, <<"header_size", 4>>,
       <<"dtb_size", 4>>, <<"dtb_addr", 8>>, <<"v4", 16>> >>

V0Off(name) == WidthBefore(HeaderV0Fields, name)
VerOff(name) == WidthBefore(HeaderV0VersionedFields, name)
V3Off(name) == WidthBefore(HeaderV3Fields, name)
VndOff(name) == WidthBefore(VendorHeaderFields, name)

(***************************************************************************)
(* HeaderV0Versioned: the version-specific trailer of headers v0-v2.       *)
(* binrw tries the variants in declared order; a variant whose pre_assert, *)
(* read or assert fails is skipped, and when none is left the read fails   *)
(* with EnumErrors at the position where the enum starts.                  *)
(***************************************************************************)
HeaderSizeV1 == 1648
HeaderSizeV2 == 1660

VariantV0Read(b, p, header_version) ==
    IF header_version # 0 THEN Fail(AssertFail(p, "header_version == 0"))
    ELSE Ok([variant |-> "V0"])

VariantV1Read(b, p, header_version) ==
    IF header_version # 1 THEN Fail(AssertFail(p, "header_version == 1"))
    ELSE IF ~Avail(b, p, VerOff("dtb_size")) THEN Fail(IoError)
    ELSE IF U32LE(b, p + VerOff("header_size")) # HeaderSizeV1
         THEN Fail(AssertFail(p + VerOff("header_size"), "header_size == 1648"))
    ELSE Ok([variant |-> "V1",
             recovery_dtbo_size |-> U32LE(b, p + VerOff("recovery_dtbo_size")),
             recovery_dtbo_addr |-> U64LE(b, p + VerOff("recovery_dtbo_addr"))])

VariantV2Read(b, p, header_version) ==
    IF header_version # 2 THEN Fail(AssertFail(p, "header_version == 2"))
    ELSE IF ~Avail(b, p, VerOff("dtb_size")) THEN Fail(IoError)
    ELSE IF U32LE(b, p + VerOff("header_size")) # HeaderSizeV2
         THEN Fail(AssertFail(p + VerOff("header_size"), "header_size == 1660"))
    ELSE IF ~Avail(b, p, VerOff("dtb_addr") + 8) THEN Fail(IoError)
    ELSE Ok([variant |-> "V2",
             recovery_dtbo_size |-> U32LE(b, p + VerOff("recovery_dtbo_size")),
             recovery_dtbo_addr |-> U64LE(b, p + VerOff("recovery_dtbo_addr")),
             dtb_size |-> U32LE(b, p + VerOff("dtb_size")),
             dtb_addr |-> U64LE(b, p + VerOff("dtb_addr"))])

HeaderV0VersionedRead(b, p, header_version) ==
    LET v0 == VariantV0Read(b, p, header_version)
        v1 == VariantV1Read(b, p, header_version)
        v2 == VariantV2Read(b, p, header_version)
    IN  IF v0.ok THEN v0
        ELSE IF v1.ok THEN v1
        ELSE IF v2.ok THEN v2
        ELSE Fail(EnumErrors(p, <<v0.err, v1.err, v2.err>>))

HeaderV0VersionedWrite(v) ==
    IF v.variant = "V0" THEN <<>>
    ELSE IF v.variant = "V1"
         THEN LE32(v.recovery_dtbo_size) \o LE64(v.recovery_dtbo_addr)
              \o LE32(HeaderSizeV1)
    ELSE LE32(v.recovery_dtbo_size) \o LE64(v.recovery_dtbo_addr)
         \o LE32(HeaderSizeV2) \o LE32(v.dtb_size) \o LE64(v.dtb_addr)

(***************************************************************************)
(* HeaderV0: boot image header versions 0, 1 and 2.                        *)
(***************************************************************************)
HeaderV0_header_version(h) ==
    IF h.versioned.variant = "V0" THEN 0
    ELSE IF h.versioned.variant = "V1" THEN 1
    ELSE 2

HeaderV0Read(b, p) ==
    IF ~Avail(b, p, 8) THEN Fail(IoError)
    ELSE IF Bytes(b, p, 8) # MagicAndroid THEN Fail(BadMagic(p, Bytes(b, p, 8)))
    ELSE IF ~Avail(b, p, V0Off("versioned")) THEN Fail(IoError)
    ELSE LET header_version == U32LE(b, p + V0Off("header_version"))
             versioned == HeaderV0VersionedRead(b, p + V0Off("versioned"),
                                                header_version)
         IN  IF ~versioned.ok THEN Fail(versioned.err)
             ELSE Ok([kernel_size |-> U32LE(b, p + V0Off("kernel_size")),
                      kernel_addr |-> U32LE(b, p + V0Off("kernel_addr")),
                      ramdisk_size |-> U32LE(b, p + V0Off("ramdisk_size")),
                      ramdisk_addr |-> U32LE(b, p + V0Off("ramdisk_addr")),
                      second_bootloader_size |->
                          U32LE(b, p + V0Off("second_bootloader_size")),
                      second_bootloader_addr |->
                          U32LE(b, p + V0Off("second_bootloader_addr")),
                      tags_addr |-> U32LE(b, p + V0Off("tags_addr")),
                      page_size |-> U32LE(b, p + V0Off("page_size")),
                      osversionpatch |-> U32LE(b, p + V0Off("osversionpatch")),
                      board_name |-> Bytes(b, p + V0Off("board_name"), 16),
                      cmdline_part_1 |-> Bytes(b, p + V0Off("cmdline_part_1"), 512),
                      hash_digest |-> Bytes(b, p + V0Off("hash_digest"), 32),
                      cmdline_part_2 |-> Bytes(b, p + V0Off("cmdline_part_2"), 1024),
                      versioned |-> versioned.val])

\* Mutant: the header_version slot is written as a stored zero, not recomputed.
HeaderV0Write_StaleVersion(h) ==
    MagicAndroid
    \o LE32(h.kernel_size) \o LE32(h.kernel_addr)
    \o LE32(h.ramdisk_size) \o LE32(h.ramdisk_addr)
    \o LE32(h.second_bootloader_size) \o LE32(h.second_bootloader_addr)
    \o LE32(h.tags_addr) \o LE32(h.page_size)
    \o LE32(0)
    \o LE32(h.osversionpatch)
    \o h.board_name \o h.cmdline_part_1 \o h.hash_digest \o h.cmdline_part_2
    \o HeaderV0VersionedWrite(h.versioned)

HeaderV0Write(h) ==
    MagicAndroid
    \o LE32(h.kernel_size) \o LE32(h.kernel_addr)
    \o LE32(h.ramdisk_size) \o LE32(h.ramdisk_addr)
    \o LE32(h.second_bootloader_size) \o LE32(h.second_bootloader_addr)
    \o LE32(h.tags_addr) \o LE32(h.page_size)
    \o LE32(HeaderV0_header_version(h))
    \o LE32(h.osversionpatch)
    \o h.board_name \o h.cmdline_part_1 \o h.hash_digest \o h.cmdline_part_2
    \o HeaderV0VersionedWrite(h.versioned)

(***************************************************************************)
(* HeaderV3: boot image header versions 3 and 4. An Option is the empty    *)
(* sequence (None) or a one-element sequence (Some).                       *)
(***************************************************************************)
None == <<>>
Some(x) == <<x>>
is_some(o) == o # None

HeaderV3_header_version(h) == IF is_some(h.v4_signature_size) THEN 4 ELSE 3

\* Mutant: the two header_size constants swapped.
HeaderV3_header_size_Swapped(h) ==
    IF is_some(h.v4_signature_size) THEN 1580 ELSE 1584

HeaderV3_header_size(h) == IF is_some(h.v4_signature_size) THEN 1584 ELSE 1580

\* Mutant: the magic is not compared.
HeaderV3Read_NoMagic(b, p) ==
    IF ~Avail(b, p, V3Off("v4_signature_size")) THEN Fail(IoError)
    ELSE LET header_size == U32LE(b, p + V3Off("header_size"))
             header_version == U32LE(b, p + V3Off("header_version"))
         IN  IF header_version = 4 /\ ~Avail(b, p, V3Off("v4_signature_size") + 4)
             THEN Fail(IoError)
             ELSE LET self ==
                          [kernel_size |-> U32LE(b, p + V3Off("kernel_size")),
                           ramdisk_size |-> U32LE(b, p + V3Off("ramdisk_size")),
                           osversionpatch |-> U32LE(b, p + V3Off("osversionpatch")),
                           cmdline |-> Bytes(b, p + V3Off("cmdline"), 1536),
                           v4_signature_size |->
                               IF header_version = 4
                               THEN Some(U32LE(b, p + V3Off("v4_signature_size")))
                               ELSE None]
                  IN  IF header_size # HeaderV3_header_size(self)
                      THEN Fail(AssertFail(p, "header_size == self.header_size()"))
                      ELSE Ok(self)

HeaderV3Read(b, p) ==
    IF ~Avail(b, p, 8) THEN Fail(IoError)
    ELSE IF Bytes(b, p, 8) # MagicAndroid THEN Fail(BadMagic(p, Bytes(b, p, 8)))
    ELSE IF ~Avail(b, p, V3Off("v4_signature_size")) THEN Fail(IoError)
    ELSE LET header_size == U32LE(b, p + V3Off("header_size"))
             header_version == U32LE(b, p + V3Off("header_version"))
         IN  IF header_version = 4 /\ ~Avail(b, p, V3Off("v4_signature_size") + 4)
             THEN Fail(IoError)
             ELSE LET self ==
                          [kernel_size |-> U32LE(b, p + V3Off("kernel_size")),
                           ramdisk_size |-> U32LE(b, p + V3Off("ramdisk_size")),
                           osversionpatch |-> U32LE(b, p + V3Off("osversionpatch")),
                           cmdline |-> Bytes(b, p + V3Off("cmdline"), 1536),
                           v4_signature_size |->
                               IF header_version = 4
                               THEN Some(U32LE(b, p + V3Off("v4_signature_size")))
                               ELSE None]
                  IN  IF header_size # HeaderV3_header_size(self)
                      THEN Fail(AssertFail(p, "header_size == self.header_size()"))
                      ELSE Ok(self)

\* Mutant: the 16 padding bytes follow header_version (pad_after).
HeaderV3Write_PadAfter(h) ==
    MagicAndroid
    \o LE32(h.kernel_size) \o LE32(h.ramdisk_size) \o LE32(h.osversionpatch)
    \o LE32(HeaderV3_header_size(h))
    \o LE32(HeaderV3_header_version(h))
    \o Zeroes(16)
    \o h.cmdline
    \o (IF is_some(h.v4_signature_size) THEN LE32(h.v4_signature_size[1]) ELSE <<>>)

HeaderV3Write(h) ==
    MagicAndroid
    \o LE32(h.kernel_size) \o LE32(h.ramdisk_size) \o LE32(h.osversionpatch)
    \o LE32(HeaderV3_header_size(h))
    \o Zeroes(16)
    \o LE32(HeaderV3_header_version(h))
    \o h.cmdline
    \o (IF is_some(h.v4_signature_size) THEN LE32(h.v4_signature_size[1]) ELSE <<>>)

(***************************************************************************)
(* VendorHeader: vendor boot image header versions 3 and 4.                *)
(***************************************************************************)
VendorHeader_header_version(h) == IF is_some(h.v4) THEN 4 ELSE 3

\* Mutant: the version-3 constant whatever the trailer.
VendorHeader_header_size_V3Only(h) == 2112

VendorHeader_header_size(h) == IF is_some(h.v4) THEN 2128 ELSE 2112

VendorHeaderV4Read(b, p) ==
    [vendor_ramdisk_table_size |-> U32LE(b, p),
     vendor_ramdisk_table_entry_num |-> U32LE(b, p + 4),
     vendor_ramdisk_table_entry_size |-> U32LE(b, p + 8),
     bootconfig_size |-> U32LE(b, p + 12)]

VendorHeaderV4Write(v) ==
    LE32(v.vendor_ramdisk_table_size) \o LE32(v.vendor_ramdisk_table_entry_num)
    \o LE32(v.vendor_ramdisk_table_entry_size) \o LE32(v.bootconfig_size)

VendorHeaderRead(b, p) ==
    IF ~Avail(b, p, 8) THEN Fail(IoError)
    ELSE IF Bytes(b, p, 8) # MagicVendor THEN Fail(BadMagic(p, Bytes(b, p, 8)))
    ELSE IF ~Avail(b, p, VndOff("v4")) THEN Fail(IoError)
    ELSE LET header_version == U32LE(b, p + VndOff("header_version"))
             header_size == U32LE(b, p + VndOff("header_size"))
         IN  IF header_version = 4 /\ ~Avail(b, p, VndOff("v4") + 16)
             THEN Fail(IoError)
             ELSE LET self ==
                          [page_size |-> U32LE(b, p + VndOff("page_size")),
                           kernel_addr |-> U32LE(b, p + VndOff("kernel_addr")),
                           ramdisk_addr |-> U32LE(b, p + VndOff("ramdisk_addr")),
                           vendor_ramdisk_size |->
                               U32LE(b, p + VndOff("vendor_ramdisk_size")),
                           cmdline |-> Bytes(b, p + VndOff("cmdline"), 2048),
                           tags_addr |-> U32LE(b, p + VndOff("tags_addr")),
                           board_name |-> Bytes(b, p + VndOff("board_name"), 16),
                           dtb_size |-> U32LE(b, p + VndOff("dtb_size")),
                           dtb_addr |-> U64LE(b, p + VndOff("dtb_addr")),
                           v4 |-> IF header_version = 4
                                  THEN Some(VendorHeaderV4Read(b, p + VndOff("v4")))
                                  ELSE None]
                  IN  IF header_size # VendorHeader_header_size(self)
                      THEN Fail(AssertFail(p, "header_size == self.header_size()"))
                      ELSE Ok(self)

VendorHeaderWrite(h) ==
    MagicVendor
    \o LE32(VendorHeader_header_version(h))
    \o LE32(h.page_size) \o LE32(h.kernel_addr) \o LE32(h.ramdisk_addr)
    \o LE32(h.vendor_ramdisk_size)
    \o h.cmdline
    \o LE32(h.tags_addr)
    \o h.board_name
    \o LE32(VendorHeader_header_size(h))
    \o LE32(h.dtb_size) \o LE64(h.dtb_addr)
    \o (IF is_some(h.v4) THEN VendorHeaderV4Write(h.v4[1]) ELSE <<>>)

(***************************************************************************)
(* Header: the facade over HeaderV0 and HeaderV3.                          *)
(***************************************************************************)
VersionPeekPos == 40   \* SeekFrom::Start(0x28)
CodecStartPos == 0     \* SeekFrom::Start(0)

\* Mutant: the v3-family arm is 3..=5.
HeaderParse_Accepts5(b) ==
    IF ~Avail(b, VersionPeekPos, 4)
    THEN [res |-> Fail(IoError), codec |-> "none"]
    ELSE LET version == U32LE(b, VersionPeekPos)
         IN  IF version \in 0..2
             THEN LET r == HeaderV0Read(b, CodecStartPos)
                  IN  [res |-> IF r.ok THEN Ok([tag |-> "V0", inner |-> r.val]) ELSE r,
                       codec |-> "HeaderV0"]
             ELSE IF version \in 3..5
             THEN LET r == HeaderV3Read(b, CodecStartPos)
                  IN  [res |-> IF r.ok THEN Ok([tag |-> "V3", inner |-> r.val]) ELSE r,
                       codec |-> "HeaderV3"]
             ELSE [res |-> Fail(AssertFail(VersionPeekPos,
                                           <<"Unknown header version: ", version>>)),
                   codec |-> "none"]

HeaderParse(b) ==
    IF ~Avail(b, VersionPeekPos, 4)
    THEN [res |-> Fail(IoError), codec |-> "none"]
    ELSE LET version == U32LE(b, VersionPeekPos)
         IN  IF version \in 0..2
             THEN LET r == HeaderV0Read(b, CodecStartPos)
                  IN  [res |-> IF r.ok THEN Ok([tag |-> "V0", inner |-> r.val]) ELSE r,
                       codec |-> "HeaderV0"]
             ELSE IF version \in {3, 4}
             THEN LET r == HeaderV3Read(b, CodecStartPos)
                  IN  [res |-> IF r.ok THEN Ok([tag |-> "V3", inner |-> r.val]) ELSE r,
                       codec |-> "HeaderV3"]
             ELSE [res |-> Fail(AssertFail(VersionPeekPos,
                                           <<"Unknown header version: ", version>>)),
                   codec |-> "none"]

HeaderWrite(h) ==
    IF h.tag = "V0" THEN HeaderV0Write(h.inner) ELSE HeaderV3Write(h.inner)

Header_header_version(h) ==
    IF h.tag = "V0" THEN HeaderV0_header_version(h.inner)
    ELSE HeaderV3_header_version(h.inner)

Header_osversionpatch(h) == h.inner.osversionpatch

Header_kernel_size(h) == h.inner.kernel_size

Header_ramdisk_size(h) == h.inner.ramdisk_size

(***************************************************************************)
(* Section layout arithmetic. usize is 64 bits wide: with u32 operands no  *)
(* sum below leaves it, and the only subtraction that can is page_size - 1 *)
(* at page_size = 0.                                                       *)
(***************************************************************************)
RECURSIVE BitAnd(_, _)
BitAnd(a, b) ==
    IF a = 0 \/ b = 0 THEN 0
    ELSE (a % 2) * (b % 2) + 2 * BitAnd(a \div 2, b \div 2)

HeaderV0_get_padding(h, size) ==
    LET page_size == h.page_size
    IN  BitAnd(page_size - BitAnd(size, page_size - 1), page_size - 1)

HeaderV0_kernel_position(h) == 1660 + HeaderV0_get_padding(h, 1660)

HeaderV0_ramdisk_position(h) ==
    HeaderV0_kernel_position(h) + h.kernel_size
    + HeaderV0_get_padding(h, h.kernel_size)

HeaderV0_second_bootloader_position(h) ==
    HeaderV0_ramdisk_position(h) + h.ramdisk_size
    + HeaderV0_get_padding(h, h.ramdisk_size)

HeaderV0_recovery_dtbo_position(h) ==
    HeaderV0_second_bootloader_position(h) + h.second_bootloader_size
    + HeaderV0_get_padding(h, h.second_bootloader_size)

\* Mutant: a position for the V2 trailer alone.
HeaderV0_dtb_position_V2Only(h) ==
    IF h.versioned.variant # "V2" THEN None
    ELSE Some(HeaderV0_second_bootloader_position(h)
              + h.versioned.recovery_dtbo_size
              + HeaderV0_get_padding(h, h.versioned.recovery_dtbo_size))

HeaderV0_dtb_position(h) ==
    IF h.versioned.variant = "V0" THEN None
    ELSE Some(HeaderV0_second_bootloader_position(h)
              + h.versioned.recovery_dtbo_size
              + HeaderV0_get_padding(h, h.versioned.recovery_dtbo_size))

PAGE_SIZE == 4096

HeaderV3_get_padding(size) ==
    BitAnd(PAGE_SIZE - BitAnd(size, PAGE_SIZE - 1), PAGE_SIZE - 1)

HeaderV3_kernel_position == PAGE_SIZE

HeaderV3_ramdisk_position(h) ==
    HeaderV3_kernel_position + h.kernel_size + HeaderV3_get_padding(h.kernel_size)

HeaderV3_bootsig_position(h) ==
    HeaderV3_ramdisk_position(h) + h.ramdisk_size
    + HeaderV3_get_padding(h.ramdisk_size)

Header_kernel_position(h) ==
    IF h.tag = "V0" THEN HeaderV0_kernel_position(h.inner)
    ELSE HeaderV3_kernel_position

Header_ramdisk_position(h) ==
    IF h.tag = "V0" THEN HeaderV0_ramdisk_position(h.inner)
    ELSE HeaderV3_ramdisk_position(h.inner)

Header_page_size(h) == IF h.tag = "V0" THEN h.inner.page_size ELSE PAGE_SIZE

\* Every position accessor of the header, evaluated once.
Positions(h) ==
    IF h.tag = "V0"
    THEN [kind |-> "V0",
          page_size |-> Header_page_size(h),
          kernel |-> Header_kernel_position(h),
          ramdisk |-> Header_ramdisk_position(h),
          second_bootloader |-> HeaderV0_second_bootloader_position(h.inner),
          recovery_dtbo |-> HeaderV0_recovery_dtbo_position(h.inner),
          dtb |-> HeaderV0_dtb_position(h.inner)]
    ELSE [kind |-> "V3",
          page_size |-> Header_page_size(h),
          kernel |-> Header_kernel_position(h),
          ramdisk |-> Header_ramdisk_position(h),
          bootsig |-> HeaderV3_bootsig_position(h.inner)]

\* page_size - 1 underflows at page_size = 0: a panic where overflow checks are
\* compiled in; where they are not, every term wraps modulo 2^64, pad(size) is
\* 2^64 - size, and each position wraps to 0.
PanicLayout == [kind |-> "panic"]
WrappedLayout(h) ==
    [kind |-> "V0", page_size |-> 0, kernel |-> 0, ramdisk |-> 0,
     second_bootloader |-> 0, recovery_dtbo |-> 0,
     dtb |-> IF h.inner.versioned.variant = "V0" THEN None ELSE Some(0)]

Underflows(h) == h.tag = "V0" /\ h.inner.page_size = 0

(***************************************************************************)
(* The OS version and patch level codec (version.rs).  Its integers keep   *)
(* their width: a u8, u16 or u32 is the sequence of its 8, 16 or 32 bits,  *)
(* lowest bit first, so that the top bit of a u32 is held.                 *)
(***************************************************************************)
RECURSIVE ToBits(_, _)
ToBits(n, w) == IF w = 0 THEN <<>> ELSE <<n % 2>> \o ToBits(n \div 2, w - 1)

\* the value of a bit sequence that stays below 2^31
RECURSIVE ToNat(_)
ToNat(v) == IF v = <<>> THEN 0 ELSE v[1] + 2 * ToNat(Tail(v))

\* `v as uN`: zero extension or truncation to w bits
Cast(v, w) == [i \in 1..w |-> IF i <= Len(v) THEN v[i] ELSE 0]

\* `v << k` and `v >> k` for k below the width: the bits shifted out are lost
Shl(v, k) == [i \in 1..Len(v) |-> IF i <= k THEN 0 ELSE v[i - k]]

Shr(v, k) == [i \in 1..Len(v) |-> IF i + k <= Len(v) THEN v[i + k] ELSE 0]

BvAnd(a, b) == [i \in 1..Len(a) |-> a[i] * b[i]]

BvOr(a, b) == [i \in 1..Len(a) |-> IF a[i] + b[i] > 0 THEN 1 ELSE 0]

\* the carry into bit i of a + b
RECURSIVE CarryIn(_, _, _)
CarryIn(a, b, i) ==
    IF i = 1 THEN 0 ELSE (a[i - 1] + b[i - 1] + CarryIn(a, b, i - 1)) \div 2

\* `a + b`: the wrapped sum, and whether the sum leaves the width (a panic
\* under overflow checks, the wrapped sum without them)
WrappingAdd(a, b) == [i \in 1..Len(a) |-> (a[i] + b[i] + CarryIn(a, b, i)) % 2]

AddOverflows(a, b) == CarryIn(a, b, Len(a) + 1) = 1

\* the borrow into bit i of a - b
RECURSIVE BorrowIn(_, _, _)
BorrowIn(a, b, i) ==
    IF i = 1 THEN 0
    ELSE IF a[i - 1] - b[i - 1] - BorrowIn(a, b, i - 1) < 0 THEN 1 ELSE 0

\* `a - b`: the wrapped difference, and whether it goes below zero
WrappingSub(a, b) ==
    [i \in 1..Len(a) |-> (a[i] - b[i] - BorrowIn(a, b, i) + 2) % 2]

SubOverflows(a, b) == BorrowIn(a, b, Len(a) + 1) = 1

\* OsVersion::new(a, b, c): ((a as u32) << 14) | ((b as u32) << 7) | c as u32
OsVersion_new(a, b, c) ==
    BvOr(BvOr(Shl(Cast(a, 32), 14), Shl(Cast(b, 32), 7)), Cast(c, 32))

\* OsVersion::version_parts(self)
OsVersion_version_parts(x) ==
    LET a == Shr(x, 14)
        b == BvAnd(Shr(x, 7), ToBits(127, 32))
        c == BvAnd(x, ToBits(127, 32))
    IN  <<Cast(a, 8), Cast(b, 8), Cast(c, 8)>>

\* OsPatch::new(year, month): ((year - 2000) << 4) + month as u16
OsPatch_new(year, month) ==
    WrappingAdd(Shl(WrappingSub(year, ToBits(2000, 16)), 4), Cast(month, 16))

OsPatch_new_overflows(year, month) ==
    \/ SubOverflows(year, ToBits(2000, 16))
    \/ AddOverflows(Shl(WrappingSub(year, ToBits(2000, 16)), 4), Cast(month, 16))

\* OsPatch::year(self): (self.0 >> 4) + 2000
OsPatch_year(p) == WrappingAdd(Shr(p, 4), ToBits(2000, 16))

\* OsPatch::month(self): (self.0 & 0xf) as u8
OsPatch_month(p) == Cast(BvAnd(p, ToBits(15, 16)), 8)

\* OsVersionPatch::new(version, patch): (version.0 << 11) + patch.0 as u32
OsVersionPatch_new(version, patch) ==
    WrappingAdd(Shl(version, 11), Cast(patch, 32))

OsVersionPatch_new_overflows(version, patch) ==
    AddOverflows(Shl(version, 11), Cast(patch, 32))

\* OsVersionPatch::version(self): self.0 >> 11
OsVersionPatch_version(w) == Shr(w, 11)

\* OsVersionPatch::patch with a mask one bit short
OsVersionPatch_patch_Mask10(w) == Cast(BvAnd(w, ToBits(1023, 32)), 16)

\* OsVersionPatch::patch(self): (self.0 & 0x7ff) as u16
OsVersionPatch_patch(w) == Cast(BvAnd(w, ToBits(2047, 32)), 16)

(***************************************************************************)
(* Inputs: byte sources.                                                   *)
(***************************************************************************)
MagicBad == <<66, 65, 68, 77, 65, 71, 73, 67>>   \* b"BADMAGIC"

ImageLen == 2128

FillArray(n, f) == [i \in 1..n |-> f]

\* An image: the magic, then the fill byte everywhere except where a
\* little-endian word is patched in (patches in ascending offset order).
RECURSIVE Patched(_, _, _)
Patched(pos, fill, patches) ==
    IF patches = <<>> THEN FillArray(ImageLen - pos, fill)
    ELSE FillArray(Head(patches)[1] - pos, fill) \o LE32(Head(patches)[2])
         \o Patched(Head(patches)[1] + 4, fill, Tail(patches))

Image(magic, fill, patches) == magic \o Patched(8, fill, patches)

Magics == {MagicAndroid, MagicVendor, MagicBad}
FillBytes == 0..MaxFill
VersionWords == 0..MaxVersion \cup {65536}
SizeWords == {1580, 1584, 1648, 1660, 2112, 2128}
FirstWords == {3, 4, 4097}
PageWords == {0, 2048, 3000}

\* Word slots: 8 (kernel_size, or the vendor header_version), 20 (the v3
\* header_size), 36 (the v0 page_size, inside the v3 reserved bytes), 40 (the
\* boot header_version), 1644 (the v0 header_size), 2096 (the vendor header_size).
FullImage(m, f, w, hs, pg, ver) ==
    Image(m, f, << <<8, w>>, <<20, hs>>, <<36, pg>>, <<40, ver>>,
                   <<1644, hs>>, <<2096, hs>> >>)

\* Sources that end early.
CutLengths == {0, 7, 8, 43, 44, 1579, 1583, 1632, 1647, 1659, 2111, 2127}
CutImage(m, ver, hs, n) == SubSeq(FullImage(m, 0, ver, hs, 2048, ver), 1, n)

(***************************************************************************)
(* Inputs: headers built in memory.                                        *)
(***************************************************************************)
FillWord(f) == f * 16843009   \* the u32 whose four bytes are f

KernelSizes == {0, 1, 4096, 5000}
RamdiskSizes == {0, 4097}
SecondSizes == {0, 2048, 5000}
RecoveryDtboSizes == {0, 100, 4096}
DtbSizes == {0, 7}
PageSizes == {1, 2048, 4096, 3000}
SignatureSizes == {0, 4096}

BuiltVersioned(f) ==
    {[variant |-> "V0"]}
    \cup {[variant |-> "V1", recovery_dtbo_size |-> rd,
           recovery_dtbo_addr |-> <<FillWord(f), 0>>] : rd \in RecoveryDtboSizes}
    \cup {[variant |-> "V2", recovery_dtbo_size |-> rd,
           recovery_dtbo_addr |-> <<FillWord(f), 0>>,
           dtb_size |-> ds, dtb_addr |-> <<0, FillWord(f)>>] :
              rd \in RecoveryDtboSizes, ds \in DtbSizes}

BuiltHeaderV0(f, ks, rs, ss, pg, v) ==
    [kernel_size |-> ks, kernel_addr |-> FillWord(f),
     ramdisk_size |-> rs, ramdisk_addr |-> FillWord(f),
     second_bootloader_size |-> ss, second_bootloader_addr |-> FillWord(f),
     tags_addr |-> FillWord(f), page_size |-> pg,
     osversionpatch |-> FillWord(f),
     board_name |-> FillArray(16, f),
     cmdline_part_1 |-> FillArray(512, f),
     hash_digest |-> FillArray(32, f),
     cmdline_part_2 |-> FillArray(1024, f),
     versioned |-> v]

BuiltHeaderV3(f, ks, rs, sig) ==
    [kernel_size |-> ks, ramdisk_size |-> rs, osversionpatch |-> FillWord(f),
     cmdline |-> FillArray(1536, f), v4_signature_size |-> sig]

BuiltVendorHeaderV4(f) ==
    [vendor_ramdisk_table_size |-> FillWord(f), vendor_ramdisk_table_entry_num |-> 1,
     vendor_ramdisk_table_entry_size |-> 108, bootconfig_size |-> FillWord(f)]

BuiltVendorHeader(f, pg, rs, ds, v4) ==
    [page_size |-> pg, kernel_addr |-> FillWord(f), ramdisk_addr |-> FillWord(f),
     vendor_ramdisk_size |-> rs, cmdline |-> FillArray(2048, f),
     tags_addr |-> FillWord(f), board_name |-> FillArray(16, f),
     dtb_size |-> ds, dtb_addr |-> <<FillWord(f), FillWord(f)>>,
     v4 |-> v4]

(***************************************************************************)
(* The state machine.                                                      *)
(***************************************************************************)
NoBack == [ok |-> FALSE, val |-> NoHeader, err |-> NoError]
NoVersion == [kind |-> "none"]

Init ==
    /\ \/ \E m \in Magics, f \in FillBytes, w \in FirstWords, hs \in SizeWords,
              pg \in PageWords, ver \in VersionWords :
              src = FullImage(m, f, w, hs, pg, ver)
       \/ \E m \in {MagicAndroid, MagicVendor}, ver \in {2, 4},
              hs \in {1660, 1584, 2128}, n \in CutLengths :
              src = CutImage(m, ver, hs, n)
    /\ hdr = NoHeader
    /\ err = NoError
    /\ out = NoBytes
    /\ back = NoBack
    /\ layout = NoLayout
    /\ called = "none"
    /\ osv = NoVersion
    /\ pc = "source"

InitBuild ==
    /\ src = NoBytes
    /\ \/ \E f \in FillBytes, ks \in KernelSizes, rs \in RamdiskSizes,
              ss \in SecondSizes, pg \in PageSizes :
              \E v \in BuiltVersioned(f) :
              hdr = [tag |-> "V0", inner |-> BuiltHeaderV0(f, ks, rs, ss, pg, v)]
       \/ \E f \in FillBytes, ks \in KernelSizes, rs \in RamdiskSizes,
              sig \in {None} \cup {Some(x) : x \in SignatureSizes} :
              hdr = [tag |-> "V3", inner |-> BuiltHeaderV3(f, ks, rs, sig)]
       \/ \E f \in FillBytes, pg \in PageSizes, rs \in RamdiskSizes,
              ds \in DtbSizes :
              \E v4 \in {None, Some(BuiltVendorHeaderV4(f))} :
              hdr = [tag |-> "VendorHeader",
                     inner |-> BuiltVendorHeader(f, pg, rs, ds, v4)]
    /\ err = NoError
    /\ out = NoBytes
    /\ back = NoBack
    /\ layout = NoLayout
    /\ called = "none"
    /\ osv = NoVersion
    /\ pc = "built"

\* Header::parse(&mut reader)
Parse ==
    /\ pc = "source"
    /\ LET r == HeaderParse(src)
       IN  /\ hdr' = r.res.val
           /\ err' = r.res.err
           /\ called' = r.codec
    /\ pc' = "Header::parse"
    /\ UNCHANGED <<src, out, back, layout, osv>>

\* HeaderV0::read(&mut reader) on a reader at position 0
ReadV0 ==
    /\ pc = "source"
    /\ LET r == HeaderV0Read(src, 0)
       IN  /\ hdr' = IF r.ok THEN [tag |-> "HeaderV0", inner |-> r.val] ELSE NoHeader
           /\ err' = r.err
    /\ called' = "HeaderV0"
    /\ pc' = "HeaderV0::read"
    /\ UNCHANGED <<src, out, back, layout, osv>>

\* HeaderV3::read(&mut reader) on a reader at position 0
ReadV3 ==
    /\ pc = "source"
    /\ LET r == HeaderV3Read(src, 0)
       IN  /\ hdr' = IF r.ok THEN [tag |-> "HeaderV3", inner |-> r.val] ELSE NoHeader
           /\ err' = r.err
    /\ called' = "HeaderV3"
    /\ pc' = "HeaderV3::read"
    /\ UNCHANGED <<src, out, back, layout, osv>>

\* VendorHeader::read(&mut reader) on a reader at position 0
ReadVendor ==
    /\ pc = "source"
    /\ LET r == VendorHeaderRead(src, 0)
       IN  /\ hdr' = IF r.ok THEN [tag |-> "VendorHeader", inner |-> r.val]
                     ELSE NoHeader
           /\ err' = r.err
    /\ called' = "VendorHeader"
    /\ pc' = "VendorHeader::read"
    /\ UNCHANGED <<src, out, back, layout, osv>>

\* Header::write(&self, &mut writer)
Write ==
    /\ pc \in {"Header::parse", "built"}
    /\ hdr.tag \in {"V0", "V3"}
    /\ out' = HeaderWrite(hdr)
    /\ pc' = "Header::write"
    /\ UNCHANGED <<src, hdr, err, back, layout, called, osv>>

\* VendorHeader::write(&self, &mut writer)
WriteVendor ==
    /\ pc \in {"VendorHeader::read", "built"}
    /\ hdr.tag = "VendorHeader"
    /\ out' = VendorHeaderWrite(hdr.inner)
    /\ pc' = "VendorHeader::write"
    /\ UNCHANGED <<src, hdr, err, back, layout, called, osv>>

\* Header::parse on the bytes Header::write emitted
ReadBack ==
    /\ pc = "Header::write"
    /\ src = NoBytes
    /\ LET r == HeaderParse(out)
       IN  /\ back' = r.res
           /\ called' = r.codec
    /\ pc' = "read back"
    /\ UNCHANGED <<src, hdr, err, out, layout, osv>>

\* VendorHeader::read on the bytes VendorHeader::write emitted
ReadBackVendor ==
    /\ pc = "VendorHeader::write"
    /\ src = NoBytes
    /\ LET r == VendorHeaderRead(out, 0)
       IN  back' = r
    /\ called' = "VendorHeader"
    /\ pc' = "read back"
    /\ UNCHANGED <<src, hdr, err, out, layout, osv>>

\* The position accessors of a header.
Accessors ==
    /\ pc \in {"Header::parse", "built"}
    /\ hdr.tag \in {"V0", "V3"}
    /\ \/ ~Underflows(hdr) /\ layout' = Positions(hdr)
       \/ Underflows(hdr) /\ layout' \in {PanicLayout, WrappedLayout(hdr)}
    /\ pc' = "positions"
    /\ UNCHANGED <<src, hdr, err, out, back, called, osv>>

Next == Parse \/ ReadV0 \/ ReadV3 \/ ReadVendor \/ Write \/ WriteVendor \/ Accessors

NextBuild == Write \/ WriteVendor \/ ReadBack \/ ReadBackVendor \/ Accessors

Spec == Init /\ [][Next]_vars

SpecBuild == InitBuild /\ [][NextBuild]_vars

(***************************************************************************)
(* The OS version and patch level codec as a state machine: the caller     *)
(* either holds version components and a patch date and packs them, or     *)
(* holds a packed word (as stored in a header) and unpacks it.             *)
(***************************************************************************)
\* the most bits by which a packed word drawn here differs from all-zeroes or
\* from all-ones
MaxWordBits == 2

VersionComponents == {0, 1, 12, 127, 128, 255}
PatchYears == {2000, 2024, 2127, 2128, 6095}
PatchMonths == {1, 6, 12}

\* the word with the bits at the picked positions (1..32, 0 picks none) set to
\* 1 - base and every other bit set to base
PickedWord(picks, base) ==
    [i \in 1..32 |-> IF \E k \in DOMAIN picks : picks[k] = i
                     THEN 1 - base ELSE base]

PackedWords ==
    {PickedWord(picks, base) : picks \in [1..MaxWordBits -> 0..32], base \in {0, 1}}
    \cup {ToBits(402653574, 32)}

NoBits == <<>>

BlankVersion ==
    [kind |-> "none", a |-> NoBits, b |-> NoBits, c |-> NoBits,
     year |-> NoBits, month |-> NoBits, version |-> NoBits, patch |-> NoBits,
     parts |-> <<>>, word |-> NoBits, panicked |-> FALSE,
     word_version |-> NoBits, word_patch |-> NoBits, word_parts |-> <<>>,
     word_year |-> NoBits, word_month |-> NoBits, again |-> NoBits]

InitVersion ==
    /\ src = NoBytes
    /\ hdr = NoHeader
    /\ err = NoError
    /\ out = NoBytes
    /\ back = NoBack
    /\ layout = NoLayout
    /\ called = "none"
    /\ \/ /\ \E a \in VersionComponents, b \in VersionComponents,
                c \in VersionComponents, y \in PatchYears, m \in PatchMonths :
                osv = [BlankVersion EXCEPT !.kind = "parts",
                          !.a = ToBits(a, 8), !.b = ToBits(b, 8), !.c = ToBits(c, 8),
                          !.year = ToBits(y, 16), !.month = ToBits(m, 8)]
          /\ pc = "version inputs"
       \/ /\ \E w \in PackedWords : osv = [BlankVersion EXCEPT !.kind = "word", !.word = w]
          /\ pc = "version word"

\* OsVersionPatch::new(OsVersion::new(a, b, c), OsPatch::new(year, month))
NewVersionPatch ==
    /\ pc = "version inputs"
    /\ LET v == OsVersion_new(osv.a, osv.b, osv.c)
           p == OsPatch_new(osv.year, osv.month)
           overflows == \/ OsPatch_new_overflows(osv.year, osv.month)
                        \/ OsVersionPatch_new_overflows(v, p)
           wrapped == [osv EXCEPT !.version = v, !.patch = p,
                                  !.word = OsVersionPatch_new(v, p)]
           panic == [osv EXCEPT !.panicked = TRUE]
       IN  osv' \in IF overflows THEN {panic, wrapped} ELSE {wrapped}
    /\ pc' = "OsVersionPatch::new"
    /\ UNCHANGED <<src, hdr, err, out, back, layout, called>>

\* OsVersion::new(a, b, c).version_parts()
VersionParts ==
    /\ pc = "version inputs"
    /\ LET v == OsVersion_new(osv.a, osv.b, osv.c)
       IN  osv' = [osv EXCEPT !.version = v, !.parts = OsVersion_version_parts(v)]
    /\ pc' = "OsVersion::version_parts"
    /\ UNCHANGED <<src, hdr, err, out, back, layout, called>>

\* version() and patch() of a packed word, and the parts its Debug output shows
Decode ==
    /\ pc \in {"version word", "OsVersionPatch::new"}
    /\ ~osv.panicked
    /\ LET v == OsVersionPatch_version(osv.word)
           p == OsVersionPatch_patch(osv.word)
       IN  osv' = [osv EXCEPT !.word_version = v, !.word_patch = p,
                              !.word_parts = OsVersion_version_parts(v),
                              !.word_year = OsPatch_year(p),
                              !.word_month = OsPatch_month(p)]
    /\ pc' = "decoded"
    /\ UNCHANGED <<src, hdr, err, out, back, layout, called>>

\* OsVersionPatch::new(vp.version(), vp.patch())
Reencode ==
    /\ pc = "decoded"
    /\ LET wrapped == [osv EXCEPT !.again =
                          OsVersionPatch_new(osv.word_version, osv.word_patch)]
           panic == [osv EXCEPT !.panicked = TRUE]
       IN  osv' \in IF OsVersionPatch_new_overflows(osv.word_version, osv.word_patch)
                    THEN {panic, wrapped} ELSE {wrapped}
    /\ pc' = "re-encoded"
    /\ UNCHANGED <<src, hdr, err, out, back, layout, called>>

NextVersion == NewVersionPatch \/ VersionParts \/ Decode \/ Reencode

SpecVersion == InitVersion /\ [][NextVersion]_vars

(***************************************************************************)
(* Properties.                                                             *)
(***************************************************************************)
\* The length of the header portion of a boot image: the fixed part, then the
\* trailer of the version held.
HeaderEnd(h) ==
    IF h.tag = "V0"
    THEN IF h.inner.versioned.variant = "V0" THEN 1632
         ELSE IF h.inner.versioned.variant = "V1" THEN 1648
         ELSE 1660
    ELSE IF is_some(h.inner.v4_signature_size) THEN 1584 ELSE 1580

\* The sixteen reserved bytes of a v3-family image, offsets 0x18..0x27, zeroed.
ZeroReserved(b, h) ==
    IF h.tag = "V3"
    THEN [i \in 1..Len(b) |-> IF i \in 25..40 THEN 0 ELSE b[i]]
    ELSE b

Written == pc = "Header::write"
Parsed == pc = "Header::parse"

\* C1 as stated: whatever Header::parse accepts, Header::write of the result
\* emits exactly the header portion of the source.
C1_AsStated == Written => out = SubSeq(src, 1, HeaderEnd(hdr))

\* C1 (amended): Header::write of a parsed header emits the header portion of
\* the source with the sixteen reserved bytes of a v3/v4 image zeroed; the
\* output is identical to the header portion for versions 0, 1, 2 and for the
\* v3/v4 images whose reserved bytes are zero.
C1_ByteRoundTrip ==
    Written =>
        /\ out = ZeroReserved(SubSeq(src, 1, HeaderEnd(hdr)), hdr)
        /\ (hdr.tag = "V0" \/ Bytes(src, 24, 16) = Zeroes(16))
               => out = SubSeq(src, 1, HeaderEnd(hdr))

C1_Witness ==
    /\ Written
    /\ hdr.tag = "V3"
    /\ is_some(hdr.inner.v4_signature_size)
    /\ Bytes(src, 24, 16) = Zeroes(16)
    /\ out = SubSeq(src, 1, 1584)

\* C3: when Header::parse succeeds, header_version() of the header returned is
\* the little-endian word at offset 0x28 of the source.
C3_VersionAgreement ==
    (Parsed /\ err = NoError) =>
        /\ hdr # NoHeader
        /\ Header_header_version(hdr) = U32LE(src, 40)

C3_Witness ==
    /\ Parsed
    /\ err = NoError
    /\ hdr.tag = "V3"
    /\ U32LE(src, 40) = 4
    /\ Header_header_version(hdr) = 4

\* C4: Header::parse returns a V0 only for the words 0, 1, 2 at 0x28 and a V3
\* only for 3 and 4, each read by its codec from offset 0; for any other word
\* it fails at 0x28 reporting the value, with no codec invoked and no header.
C4_Dispatch ==
    (Parsed /\ Avail(src, 40, 4)) =>
        LET w == U32LE(src, 40)
        IN  /\ hdr.tag = "V0" => w \in 0..2
            /\ hdr.tag = "V3" => w \in {3, 4}
            /\ called = "HeaderV0" <=> w \in 0..2
            /\ called = "HeaderV3" <=> w \in {3, 4}
            /\ hdr # NoHeader => Bytes(src, 0, 8) = MagicAndroid
            /\ w \notin 0..4 =>
                   /\ hdr = NoHeader
                   /\ called = "none"
                   /\ err = [kind |-> "AssertFail", pos |-> 40,
                             message |-> <<"Unknown header version: ", w>>]

C4_Witness ==
    /\ Parsed
    /\ Avail(src, 40, 4)
    /\ U32LE(src, 40) = 5
    /\ Bytes(src, 0, 8) = MagicAndroid
    /\ err.kind = "AssertFail"
    /\ hdr = NoHeader

BadMagicSource == Len(src) >= 8 /\ Bytes(src, 0, 8) # MagicAndroid

\* C5 as stated: a source whose first 8 bytes are not "ANDROID!" fails with
\* the bad-magic error whatever else it holds.
C5_AsStated == (Parsed /\ BadMagicSource) => err.kind = "BadMagic"

\* C5 (amended): a source whose first 8 bytes are not "ANDROID!" always fails;
\* with the bad-magic error when the word at 0x28 is 0..=4, with the
\* unknown-version error at 0x28 for any other word, and with an I/O error
\* when the source ends before 0x2c.
C5_BadMagic ==
    (Parsed /\ BadMagicSource) =>
        /\ hdr = NoHeader
        /\ IF ~Avail(src, 40, 4) THEN err = IoError
           ELSE IF U32LE(src, 40) \in 0..4
                THEN err = [kind |-> "BadMagic", pos |-> 0,
                            found |-> Bytes(src, 0, 8)]
                ELSE err.kind = "AssertFail" /\ err.pos = 40

C5_Witness ==
    /\ Parsed
    /\ Bytes(src, 0, 8) = MagicBad
    /\ U32LE(src, 40) = 3
    /\ err.kind = "BadMagic"
    /\ hdr = NoHeader

\* C2: writing an in-memory Header with Header::write and parsing the bytes
\* written with Header::parse succeeds and returns a value equal to it.
C2_ValueRoundTrip ==
    (pc = "read back" /\ hdr.tag \in {"V0", "V3"}) =>
        /\ back.ok
        /\ back.err = NoError
        /\ back.val = hdr

C2_Witness ==
    /\ pc = "read back"
    /\ hdr.tag = "V0"
    /\ hdr.inner.versioned.variant = "V2"
    /\ U32LE(out, 40) = 2
    /\ U32LE(out, 1644) = 1660
    /\ back.val = hdr

ReadFailed == hdr = NoHeader /\ err # NoError

\* the embedded header_size of a source read as a v0-family, v3-family or
\* vendor header, and the version each codec reads
V0SizeSlot(b) == U32LE(b, V0Off("versioned") + VerOff("header_size"))
V3SizeSlot(b) == U32LE(b, V3Off("header_size"))
VendorSizeSlot(b) == U32LE(b, VndOff("header_size"))
VendorVersionSlot(b) == U32LE(b, VndOff("header_version"))

\* C6: a read fails and returns no header whenever the embedded header_size
\* is not the constant of the variant detected: 1648 (v1), 1660 (v2), 1580
\* (v3), 1584 (v4), 2112 (vendor v3), 2128 (vendor v4); a version-0 header has
\* no header_size and is not rejected for the word where the others keep it.
C6_HeaderSizeValidated ==
    /\ (pc \in {"Header::parse", "HeaderV0::read"} /\ Avail(src, 0, 1648)) =>
          /\ (U32LE(src, 40) = 1 /\ V0SizeSlot(src) # 1648) => ReadFailed
          /\ (U32LE(src, 40) = 2 /\ V0SizeSlot(src) # 1660) => ReadFailed
          /\ (U32LE(src, 40) = 0 /\ Bytes(src, 0, 8) = MagicAndroid) =>
                 /\ err = NoError
                 /\ hdr.inner.versioned = [variant |-> "V0"]
    /\ (pc \in {"Header::parse", "HeaderV3::read"} /\ Avail(src, 0, 44)) =>
          /\ (U32LE(src, 40) = 3 /\ V3SizeSlot(src) # 1580) => ReadFailed
          /\ (U32LE(src, 40) = 4 /\ V3SizeSlot(src) # 1584) => ReadFailed
    /\ (pc = "VendorHeader::read" /\ Avail(src, 0, 2100)) =>
          /\ (VendorVersionSlot(src) = 3 /\ VendorSizeSlot(src) # 2112) => ReadFailed
          /\ (VendorVersionSlot(src) = 4 /\ VendorSizeSlot(src) # 2128) => ReadFailed

C6_Witness ==
    /\ pc = "VendorHeader::read"
    /\ Bytes(src, 0, 8) = MagicVendor
    /\ Len(src) = ImageLen
    /\ VendorVersionSlot(src) = 4
    /\ VendorSizeSlot(src) = 2112
    /\ err.kind = "AssertFail"
    /\ hdr = NoHeader

\* C7: the bytes written carry at the header_version slot the number of the
\* variant held and at the header_size slot its constant; a V0 header is
\* written without a header_size.
C7_RecomputedOnWrite ==
    /\ (pc = "Header::write" /\ hdr.tag = "V0") =>
          LET v == hdr.inner.versioned.variant
          IN  /\ v = "V0" => U32LE(out, 40) = 0 /\ Len(out) = 1632
              /\ v = "V1" => /\ U32LE(out, 40) = 1
                             /\ U32LE(out, 1644) = 1648
                             /\ Len(out) = 1648
              /\ v = "V2" => /\ U32LE(out, 40) = 2
                             /\ U32LE(out, 1644) = 1660
                             /\ Len(out) = 1660
    /\ (pc = "Header::write" /\ hdr.tag = "V3") =>
          IF is_some(hdr.inner.v4_signature_size)
          THEN U32LE(out, 40) = 4 /\ U32LE(out, 20) = 1584 /\ Len(out) = 1584
          ELSE U32LE(out, 40) = 3 /\ U32LE(out, 20) = 1580 /\ Len(out) = 1580
    /\ pc = "VendorHeader::write" =>
          IF is_some(hdr.inner.v4)
          THEN U32LE(out, 8) = 4 /\ U32LE(out, 2096) = 2128 /\ Len(out) = 2128
          ELSE U32LE(out, 8) = 3 /\ U32LE(out, 2096) = 2112 /\ Len(out) = 2112

C7_Witness ==
    /\ pc = "VendorHeader::write"
    /\ src = NoBytes
    /\ is_some(hdr.inner.v4)
    /\ U32LE(out, 2096) = 2128

IsPowerOfTwo(n) == n > 0 /\ BitAnd(n, n - 1) = 0

\* p is a page boundary and the first one at or after e
Padded(p, e, page) == p % page = 0 /\ 0 <= p - e /\ p - e < page

LaidOut == pc = "positions" /\ layout.kind \in {"V0", "V3"}

\* C8: with a power-of-two page size every section position is a multiple of
\* the page size and less than one page past the end of the section before it
\* (the header, of length 1660, before the kernel; the DTB of a version-2
\* header after its recovery DTBO).
C8_PaddingInvariant ==
    (LaidOut /\ IsPowerOfTwo(layout.page_size)) =>
        LET h == hdr.inner
            pg == layout.page_size
        IN  /\ Padded(layout.kernel, 1660, pg)
            /\ Padded(layout.ramdisk, layout.kernel + h.kernel_size, pg)
            /\ layout.kind = "V3" =>
                   Padded(layout.bootsig, layout.ramdisk + h.ramdisk_size, pg)
            /\ layout.kind = "V0" =>
                   /\ Padded(layout.second_bootloader,
                             layout.ramdisk + h.ramdisk_size, pg)
                   /\ Padded(layout.recovery_dtbo,
                             layout.second_bootloader + h.second_bootloader_size, pg)
                   /\ h.versioned.variant = "V2" =>
                          Padded(layout.dtb[1],
                                 layout.recovery_dtbo + h.versioned.recovery_dtbo_size,
                                 pg)

\* C9: with a power-of-two page size, kernel <= ramdisk <= second bootloader
\* (or boot signature) <= recovery DTBO <= DTB, the DTB being compared for a
\* version-2 header, which alone has one.
C9_MonotoneLayout ==
    (LaidOut /\ IsPowerOfTwo(layout.page_size)) =>
        /\ layout.kernel <= layout.ramdisk
        /\ layout.kind = "V3" => layout.ramdisk <= layout.bootsig
        /\ layout.kind = "V0" =>
               /\ layout.ramdisk <= layout.second_bootloader
               /\ layout.second_bootloader <= layout.recovery_dtbo
               /\ hdr.inner.versioned.variant = "V2" =>
                      layout.recovery_dtbo <= layout.dtb[1]

\* C10 as stated: HeaderV0::dtb_position returns a value only for a version-2
\* header and nothing for versions 0 and 1.
C10_AsStated ==
    (LaidOut /\ layout.kind = "V0") =>
        (is_some(layout.dtb) <=> hdr.inner.versioned.variant = "V2")

\* C10 (amended): HeaderV0::dtb_position returns a value for a version-1 and
\* for a version-2 header and nothing for version 0 alone.
C10_DtbPositionDefined ==
    (LaidOut /\ layout.kind = "V0") =>
        /\ is_some(layout.dtb) <=> hdr.inner.versioned.variant \in {"V1", "V2"}
        /\ is_some(layout.dtb) <=> HeaderV0_header_version(hdr.inner) # 0

C10_Witness ==
    /\ LaidOut
    /\ layout.kind = "V0"
    /\ hdr.inner.versioned.variant = "V1"
    /\ is_some(layout.dtb)

\* The components of a packed version, each within the seven bits the format
\* gives it.
ComponentsInRange ==
    /\ osv.kind = "parts"
    /\ ToNat(osv.a) <= 127 /\ ToNat(osv.b) <= 127 /\ ToNat(osv.c) <= 127

\* C11: for components 0..=127, years 2000..=2000+4095 and months 1..=12,
\* OsVersionPatch::new(v, p) returns a value whose version() equals v and whose
\* patch() equals p.
C11_EncodeDecode ==
    ComponentsInRange =>
        /\ pc = "OsVersionPatch::new" => ~osv.panicked
        /\ pc = "decoded" =>
              /\ osv.word_version = osv.version
              /\ osv.word_patch = osv.patch

\* C12: for every 32 bit word w held by an OsVersionPatch,
\* OsVersionPatch::new(w.version(), w.patch()) equals w: the version is the top
\* 21 bits, the patch the low 11 bits, and re-packing them does not overflow.
C12_DecodeEncode ==
    pc = "re-encoded" =>
        /\ ~osv.panicked
        /\ osv.again = osv.word
        /\ \A i \in 1..32 : osv.word_version[i] = IF i <= 21 THEN osv.word[i + 11] ELSE 0
        /\ \A i \in 1..16 : osv.word_patch[i] = IF i <= 11 THEN osv.word[i] ELSE 0

\* a word read from a header, with its top bit and the top bit of its patch
\* date set, has been unpacked and packed again
C12_Witness ==
    /\ pc = "re-encoded"
    /\ osv.kind = "word"
    /\ osv.word[32] = 1 /\ osv.word[11] = 1
    /\ osv.again = osv.word

\* the value of a u8 reduced to its low seven bits
Low7(v) == ToNat(v) % 128

\* C13: for a, b, c in 0..=255, OsVersion::new(a, b, c).version_parts() returns
\* (a mod 128, b mod 128, c mod 128): each component is reduced to its low
\* seven bits before packing and no component alters another component's bits.
C13_ComponentsMasked ==
    pc = "OsVersion::version_parts" =>
        /\ ToNat(osv.parts[1]) = Low7(osv.a)
        /\ ToNat(osv.parts[2]) = Low7(osv.b)
        /\ ToNat(osv.parts[3]) = Low7(osv.c)

\* C14: for every header Header::parse returns, each accessor of the facade
\* returns a value without panicking, overflowing or underflowing; in
\* particular every v0-family header returned by parse has a power-of-two
\* page_size, which the padding arithmetic presupposes.
C14_AccessorTotality ==
    /\ Parsed /\ hdr.tag = "V0" => IsPowerOfTwo(Header_page_size(hdr))
    /\ pc = "positions" /\ src # NoBytes =>
          /\ ~Underflows(hdr)
          /\ layout.kind # "panic"
          /\ layout.kernel = Header_kernel_position(hdr)
          /\ layout.ramdisk = Header_ramdisk_position(hdr)

\* the version word a source stores: at 0x28 of a boot image, at 8 of a vendor
\* boot image
StoredBootVersion(b) == U32LE(b, V3Off("header_version"))
StoredVendorVersion(b) == U32LE(b, VndOff("header_version"))

\* C15: every header returned by HeaderV3::read or VendorHeader::read called
\* directly has header_version() equal to the version word stored in the
\* source, so a source whose version word is neither 3 nor 4 is rejected
\* rather than returned as a version 3 header when its header_size is the
\* version 3 constant (1580, resp. 2112).
C15_CodecVersionInvariant ==
    /\ pc = "HeaderV3::read" /\ err = NoError =>
          HeaderV3_header_version(hdr.inner) = StoredBootVersion(src)
    /\ pc = "VendorHeader::read" /\ err = NoError =>
          VendorHeader_header_version(hdr.inner) = StoredVendorVersion(src)

====
